---- MODULE Spec2Model ----
(***************************************************************************)
(* A model of the LeQua2022 submission container (data.py, class           *)
(* ResultSubmission) and of the scorer (evaluate.py, evaluate_submission). *)
(*                                                                         *)
(* Floats are fixed-point numbers counted in thousandths (One = 1.0), plus *)
(* the IEEE value NaN, on which every ordered comparison is false and      *)
(* through which arithmetic propagates.  Text (file cells, header cells)   *)
(* is a sequence of one-character strings.                                 *)
(***************************************************************************)
EXTENDS Integers, Sequences, FiniteSets, TLC

VARIABLES
    df,        \* self.df of the ResultSubmission under construction
    file,      \* the csv file at the path used by dump and load
    r,         \* r.df of the ResultSubmission returned by the last load
    op,        \* the last call and its arguments
    err,       \* how the last call ended: "ok" or the kind of the exception
    ret,       \* what the last call returned (when it returns a value)
    inserted   \* history: the ids of the successful add calls, in call order

vars == <<df, file, r, op, err, ret, inserted>>

----------------------------------------------------------------------------
(* Bounds and constants *)

MaxId == 2          \* add is offered the sample ids 0..MaxId
MaxFileRows == 3    \* a file read by load holds at most this many data lines
MaxEvalId == 1      \* the scored tables hold the sample ids 0..MaxEvalId

One == 1000         \* the float 1.0, in thousandths
NaN == 999999       \* the float nan: never ordered, never added (see Lt, Gt, FSum)

\* The module constants is imported (data.py:7) and holds the tolerance and the
\* two permitted row counts.  The tolerance is one thousandth; the row counts are
\* scaled down to the two smallest distinct sizes.
ERROR_TOL == 1
DEV_SAMPLES == 1
TEST_SAMPLES == 2

Ids == 0..MaxId

----------------------------------------------------------------------------
(* Float arithmetic as numpy performs it *)

IsNaN(x) == x = NaN

Lt(a, b) == ~IsNaN(a) /\ ~IsNaN(b) /\ a < b

Gt(a, b) == ~IsNaN(a) /\ ~IsNaN(b) /\ a > b

FSub(a, b) == IF IsNaN(a) \/ IsNaN(b) THEN NaN ELSE a - b

FAbs(a) == IF IsNaN(a) THEN NaN ELSE IF a < 0 THEN -a ELSE a

RECURSIVE FSum(_)
FSum(v) ==
    IF v = <<>> THEN 0
    ELSE LET t == FSum(Tail(v))
         IN  IF IsNaN(Head(v)) \/ IsNaN(t) THEN NaN ELSE Head(v) + t

AnyNegative(v) == \E i \in 1..Len(v) : Lt(v[i], 0)

AnyAboveOne(v) == \E i \in 1..Len(v) : Gt(v[i], One)

SumOff(v) == Gt(FAbs(FSub(FSum(v), One)), ERROR_TOL)

Ndim(v) == 1

----------------------------------------------------------------------------
(* The data frame *)

IdName == <<"i", "d">>

IntLabel(i) == [t |-> "int", i |-> i, s |-> <<>>]

StrLabel(s) == [t |-> "str", i |-> 0, s |-> s]

NoneDF == [isNone |-> TRUE, name |-> <<>>, columns |-> <<>>, rows |-> <<>>]

IndexOf(d) == [i \in 1..Len(d.rows) |-> d.rows[i].id]

IndexValues(d) == {d.rows[i].id : i \in 1..Len(d.rows)}

init_df(categories) ==
    IF categories < 2
    THEN [err |-> "TypeError", df |-> NoneDF]
    ELSE [err |-> "ok",
          df  |-> [isNone  |-> FALSE,
                   name    |-> IdName,
                   columns |-> [i \in 1..categories |-> IntLabel(i - 1)],
                   rows    |-> <<>>]]

n_categories(d) == Len(d.columns)

\* df.loc[sample_id] = prevalence_values, for a sample_id not in the index
loc_set(d, sample_id, prevalence_values) ==
    IF Len(prevalence_values) # Len(d.columns)
    THEN [err |-> "MismatchedColumns", df |-> d]
    ELSE [err |-> "ok",
          df  |-> [d EXCEPT !.rows =
                      Append(@, [id |-> sample_id, vals |-> prevalence_values])]]

add_dupLast(d, sample_id, prevalence_values) ==
    LET i == IF d.isNone THEN init_df(Len(prevalence_values))
             ELSE [err |-> "ok", df |-> d]
        s == i.df
    IN  IF i.err # "ok" THEN [err |-> i.err, df |-> d]
        ELSE IF AnyNegative(prevalence_values) \/ AnyAboveOne(prevalence_values)
            THEN [err |-> "RangeError", df |-> s]
        ELSE IF SumOff(prevalence_values)
            THEN [err |-> "SumError", df |-> s]
        ELSE IF sample_id \in IndexValues(s)
            THEN [err |-> "DuplicateId", df |-> s]
        ELSE loc_set(s, sample_id, prevalence_values)

add(d, sample_id, prevalence_values) ==
    LET i == IF d.isNone THEN init_df(Len(prevalence_values))
             ELSE [err |-> "ok", df |-> d]
        s == i.df
    IN  IF i.err # "ok" THEN [err |-> i.err, df |-> d]
        ELSE IF sample_id \in IndexValues(s)
            THEN [err |-> "DuplicateId", df |-> s]
        ELSE IF Ndim(prevalence_values) # 1
                /\ Len(prevalence_values) # n_categories(s)
            THEN [err |-> "ShapeMismatch", df |-> s]
        ELSE IF AnyNegative(prevalence_values) \/ AnyAboveOne(prevalence_values)
            THEN [err |-> "RangeError", df |-> s]
        ELSE IF SumOff(prevalence_values)
            THEN [err |-> "SumError", df |-> s]
        ELSE loc_set(s, sample_id, prevalence_values)

----------------------------------------------------------------------------
(* Text: what to_csv writes and read_csv / int() parse *)

Digits == <<"0", "1", "2", "3", "4", "5", "6", "7", "8", "9">>

IsDigit(c) == \E d \in 1..10 : Digits[d] = c

DigitVal(c) == (CHOOSE d \in 1..10 : Digits[d] = c) - 1

AllDigits(t) == \A i \in 1..Len(t) : IsDigit(t[i])

RECURSIVE NatToText(_)
NatToText(n) ==
    IF n < 10 THEN <<Digits[n + 1]>>
    ELSE NatToText(n \div 10) \o <<Digits[(n % 10) + 1]>>

IntToText(n) == IF n < 0 THEN <<"-">> \o NatToText(-n) ELSE NatToText(n)

RECURSIVE TextToNat(_)
TextToNat(t) ==
    IF t = <<>> THEN 0
    ELSE 10 * TextToNat(SubSeq(t, 1, Len(t) - 1)) + DigitVal(t[Len(t)])

\* int(ci): an int stays itself; a string is an optional sign and digits
ParseInt(t) ==
    LET neg  == t # <<>> /\ Head(t) = "-"
        body == IF neg THEN Tail(t) ELSE t
    IN  IF body = <<>> \/ ~AllDigits(body) THEN [ok |-> FALSE, v |-> 0]
        ELSE [ok |-> TRUE, v |-> IF neg THEN -TextToNat(body) ELSE TextToNat(body)]

FloatToText_short(x) ==
    IF IsNaN(x) THEN <<>>
    ELSE LET a == IF x < 0 THEN -x ELSE x
         IN  (IF x < 0 THEN <<"-">> ELSE <<>>) \o NatToText(a \div One)
             \o <<".", Digits[((a % One) \div 100) + 1]>>

\* repr of a float: the shortest decimal, with at least one fractional digit;
\* to_csv writes NaN as the empty cell
FloatToText(x) ==
    IF IsNaN(x) THEN <<>>
    ELSE LET a  == IF x < 0 THEN -x ELSE x
             f  == a % One
             d1 == f \div 100
             d2 == (f \div 10) % 10
             d3 == f % 10
             fr == IF d3 # 0 THEN <<Digits[d1 + 1], Digits[d2 + 1], Digits[d3 + 1]>>
                   ELSE IF d2 # 0 THEN <<Digits[d1 + 1], Digits[d2 + 1]>>
                   ELSE <<Digits[d1 + 1]>>
         IN  (IF x < 0 THEN <<"-">> ELSE <<>>) \o NatToText(a \div One) \o <<".">> \o fr

PointAt(t) == IF \E i \in 1..Len(t) : t[i] = "." 
              THEN CHOOSE i \in 1..Len(t) : t[i] = "." 
              ELSE Len(t) + 1

\* read_csv's float of a numeric cell, to the thousandth; the empty cell is NaN
ParseFloat(t) ==
    IF t = <<>> THEN NaN
    ELSE LET neg  == Head(t) = "-"
             body == IF neg THEN Tail(t) ELSE t
             p    == PointAt(body)
             ip   == TextToNat(SubSeq(body, 1, p - 1))
             fd   == SubSeq(body, p + 1, Len(body))
             fr   == [i \in 1..3 |-> IF i <= Len(fd) THEN fd[i] ELSE "0"]
             a    == ip * One + TextToNat(fr)
         IN  IF neg THEN -a ELSE a

LabelText(c) == IF c.t = "int" THEN IntToText(c.i) ELSE c.s

LabelInt(c) == IF c.t = "int" THEN [ok |-> TRUE, v |-> c.i] ELSE ParseInt(c.s)

NoFile == [exists |-> FALSE, header |-> <<>>, lines |-> <<>>]

\* df.to_csv(path)
to_csv(d) ==
    [exists |-> TRUE,
     header |-> <<d.name>> \o [j \in 1..Len(d.columns) |-> LabelText(d.columns[j])],
     lines  |-> [i \in 1..Len(d.rows) |->
                    <<IntToText(d.rows[i].id)>> \o
                    [j \in 1..Len(d.rows[i].vals) |-> FloatToText(d.rows[i].vals[j])]]]

\* pd.read_csv(path, index_col=0)
read_csv(f) ==
    [isNone  |-> FALSE,
     name    |-> f.header[1],
     columns |-> [j \in 1..(Len(f.header) - 1) |-> StrLabel(f.header[j + 1])],
     rows    |-> [i \in 1..Len(f.lines) |->
                    [id   |-> ParseInt(f.lines[i][1]).v,
                     vals |-> [j \in 1..(Len(f.lines[i]) - 1) |->
                                 ParseFloat(f.lines[i][j + 1])]]]]

----------------------------------------------------------------------------
(* The format check *)

ColumnValues(d, j) == [i \in 1..Len(d.rows) |-> d.rows[i].vals[j]]

LabelsAreRange(d) ==
    \A j \in 1..Len(d.columns) :
        LabelInt(d.columns[j]).ok /\ LabelInt(d.columns[j]).v = j - 1

check_dataframe_format(d) ==
    IF d.isNone THEN [err |-> "AttributeError", why |-> "none"]
    ELSE IF d.name # IdName \/ Len(d.columns) < 2
        THEN [err |-> "FormatError", why |-> "header"]
    ELSE IF ~LabelsAreRange(d)
        THEN [err |-> "FormatError", why |-> "labels"]
    ELSE IF Len(d.rows) = 0
        THEN [err |-> "FormatError", why |-> "empty"]
    ELSE IF Len(d.rows) # DEV_SAMPLES /\ Len(d.rows) # TEST_SAMPLES
        THEN [err |-> "FormatError", why |-> "count"]
    ELSE IF IndexValues(d) # 0..(Len(d.rows) - 1)
            /\ (   (0..(Len(d.rows) - 1)) \ IndexValues(d) # {}
                \/ IndexValues(d) \ (0..(Len(d.rows) - 1)) # {})
        THEN [err |-> "FormatError", why |-> "ids"]
    ELSE IF \E j \in 1..Len(d.columns) :
                AnyNegative(ColumnValues(d, j)) \/ AnyAboveOne(ColumnValues(d, j))
        THEN [err |-> "FormatError", why |-> "range"]
    ELSE IF \E i \in 1..Len(d.rows) : SumOff(d.rows[i].vals)
        THEN [err |-> "FormatError", why |-> "sum"]
    ELSE [err |-> "ok", why |-> "ok"]

check_file_format(f) ==
    IF ~f.exists THEN [err |-> "FileNotFoundError", why |-> "nofile", df |-> NoneDF]
    ELSE LET d == read_csv(f)
             c == check_dataframe_format(d)
         IN  [err |-> c.err, why |-> c.why, df |-> IF c.err = "ok" THEN d ELSE NoneDF]

load(f) == check_file_format(f)

dump_writeFirst(d, f) ==
    LET c == check_dataframe_format(d)
    IN  [err |-> c.err, why |-> c.why, file |-> IF d.isNone THEN f ELSE to_csv(d)]

dump(d, f) ==
    LET c == check_dataframe_format(d)
    IN  IF c.err # "ok" THEN [err |-> c.err, why |-> c.why, file |-> f]
        ELSE [err |-> "ok", why |-> "ok", file |-> to_csv(d)]

----------------------------------------------------------------------------
(* Lookup and iteration *)

RECURSIVE Flatten(_)
Flatten(ss) == IF ss = <<>> THEN <<>> ELSE Head(ss) \o Flatten(Tail(ss))

RECURSIVE SelectRows(_, _)
SelectRows(rows, sample_id) ==
    IF rows = <<>> THEN <<>>
    ELSE (IF Head(rows).id = sample_id THEN <<Head(rows).vals>> ELSE <<>>)
         \o SelectRows(Tail(rows), sample_id)

\* self.df.loc[sample_id]: a label that is not in the index raises KeyError
prevalence_iloc(d, sample_id) ==
    IF d.isNone THEN [err |-> "AttributeError", none |-> FALSE, val |-> <<>>]
    ELSE IF sample_id + 1 \notin 1..Len(d.rows)
        THEN [err |-> "IndexError", none |-> FALSE, val |-> <<>>]
    ELSE [err |-> "ok", none |-> FALSE, val |-> d.rows[sample_id + 1].vals]

prevalence(d, sample_id) ==
    IF d.isNone THEN [err |-> "AttributeError", none |-> FALSE, val |-> <<>>]
    ELSE IF sample_id \notin IndexValues(d)
        THEN [err |-> "KeyError", none |-> FALSE, val |-> <<>>]
    ELSE LET sel == Flatten(SelectRows(d.rows, sample_id))
         IN  IF sel = <<>> THEN [err |-> "ok", none |-> TRUE, val |-> <<>>]
             ELSE [err |-> "ok", none |-> FALSE, val |-> sel]

RECURSIVE InsertById(_, _)
InsertById(row, sorted) ==
    IF sorted = <<>> THEN <<row>>
    ELSE IF row.id <= Head(sorted).id THEN <<row>> \o sorted
    ELSE <<Head(sorted)>> \o InsertById(row, Tail(sorted))

RECURSIVE SortById(_)
SortById(rows) ==
    IF rows = <<>> THEN <<>> ELSE InsertById(Head(rows), SortById(Tail(rows)))

iterrows_sorted(d) ==
    IF d.isNone THEN [err |-> "AttributeError", val |-> <<>>]
    ELSE [err |-> "ok",
          val |-> [i \in 1..Len(d.rows) |->
                     <<SortById(d.rows)[i].id, SortById(d.rows)[i].vals>>]]

iterrows(d) ==
    IF d.isNone THEN [err |-> "AttributeError", val |-> <<>>]
    ELSE [err |-> "ok",
          val |-> [i \in 1..Len(d.rows) |-> <<d.rows[i].id, d.rows[i].vals>>]]

----------------------------------------------------------------------------
(* The scorer.  A mean is kept exact: the terms it averages and their      *)
(* number; a quotient is kept as the pair of its numerator and denominator *)

Mean(terms) ==
    IF terms = <<>> THEN [kind |-> "nan", of |-> <<>>]
    ELSE [kind |-> "mean", of |-> terms]

absolute_error(prevs, prevs_hat) ==
    IF Len(prevs) # Len(prevs_hat) THEN [err |-> "AssertionError", val |-> Mean(<<>>)]
    ELSE [err |-> "ok",
          val |-> Mean([i \in 1..Len(prevs) |-> FAbs(FSub(prevs_hat[i], prevs[i]))])]

\* (prevs + eps) / (eps * n_classes + 1) with eps = 1 / (2 * sample_size): every
\* entry is (2 * sample_size * p + One) over the common One * (n_classes + 2 * sample_size)
smooth(prevs, sample_size) ==
    [num |-> [i \in 1..Len(prevs) |->
                IF IsNaN(prevs[i]) THEN NaN ELSE 2 * sample_size * prevs[i] + One],
     den |-> One * (Len(prevs) + 2 * sample_size)]

Quot(a, b) == IF IsNaN(a) \/ IsNaN(b) THEN NaN ELSE <<a, b>>

relative_absolute_error(p, p_hat, sample_size) ==
    LET sp == smooth(p, sample_size)
        sh == smooth(p_hat, sample_size)
    IN  Mean([i \in 1..Len(p) |-> Quot(FAbs(FSub(sp.num[i], sh.num[i])), sp.num[i])])

RECURSIVE EvalLoop(_, _, _, _, _)
EvalLoop(rows, predicted_prevs, sample_size, ae, rae) ==
    IF rows = <<>> THEN [err |-> "ok", ae |-> ae, rae |-> rae]
    ELSE LET sample_id       == Head(rows)[1]
             true_prevalence == Head(rows)[2]
             pp              == prevalence(predicted_prevs, sample_id)
             a               == absolute_error(true_prevalence, pp.val)
         IN  IF pp.err # "ok" THEN [err |-> pp.err, ae |-> ae, rae |-> rae]
             ELSE IF pp.none THEN [err |-> "AttributeError", ae |-> ae, rae |-> rae]
             ELSE IF a.err # "ok" THEN [err |-> a.err, ae |-> ae, rae |-> rae]
             ELSE EvalLoop(Tail(rows), predicted_prevs, sample_size,
                           Append(ae, a.val),
                           Append(rae, relative_absolute_error(
                                          true_prevalence, pp.val, sample_size)))

evaluate_submission_catFirst(true_prevs, predicted_prevs, sample_size, average) ==
    IF true_prevs.isNone \/ predicted_prevs.isNone
        THEN [err |-> "TypeError", ae |-> <<>>, rae |-> <<>>, val |-> <<>>]
    ELSE IF n_categories(true_prevs) # n_categories(predicted_prevs)
        THEN [err |-> "CategoryMismatch", ae |-> <<>>, rae |-> <<>>, val |-> <<>>]
    ELSE IF Len(true_prevs.rows) # Len(predicted_prevs.rows)
        THEN [err |-> "SizeMismatch", ae |-> <<>>, rae |-> <<>>, val |-> <<>>]
    ELSE LET l == EvalLoop(iterrows(true_prevs).val, predicted_prevs, sample_size,
                           <<>>, <<>>)
         IN  [err |-> l.err, ae |-> l.ae, rae |-> l.rae,
              val |-> IF l.err # "ok" THEN <<>>
                      ELSE IF average THEN <<Mean(l.ae), Mean(l.rae)>>
                      ELSE <<l.ae, l.rae>>]

evaluate_submission(true_prevs, predicted_prevs, sample_size, average) ==
    IF true_prevs.isNone \/ predicted_prevs.isNone
        THEN [err |-> "TypeError", ae |-> <<>>, rae |-> <<>>, val |-> <<>>]
    ELSE IF Len(true_prevs.rows) # Len(predicted_prevs.rows)
        THEN [err |-> "SizeMismatch", ae |-> <<>>, rae |-> <<>>, val |-> <<>>]
    ELSE IF n_categories(true_prevs) # n_categories(predicted_prevs)
        THEN [err |-> "CategoryMismatch", ae |-> <<>>, rae |-> <<>>, val |-> <<>>]
    ELSE LET l == EvalLoop(iterrows(true_prevs).val, predicted_prevs, sample_size,
                           <<>>, <<>>)
         IN  [err |-> l.err, ae |-> l.ae, rae |-> l.rae,
              val |-> IF l.err # "ok" THEN <<>>
                      ELSE IF average THEN <<Mean(l.ae), Mean(l.rae)>>
                      ELSE <<l.ae, l.rae>>]

----------------------------------------------------------------------------
(* The vectors offered to add *)

Vectors ==
    { <<500, 500>>,        \* valid
      <<500, 501>>,        \* valid: the sum is off by the tolerance
      <<NaN, 500>>,        \* holds a NaN
      <<500, 502>>,        \* the sum is off by more than the tolerance
      <<-1, 1001>>,        \* out of range, sums to one
      <<300, 300, 400>>,   \* valid, three classes
      <<1001, 0, 0>>,      \* three classes, out of range
      <<1000>> }           \* one class

NoOp == [name |-> "init"]

Init ==
    /\ df = NoneDF
    /\ file = NoFile
    /\ r = NoneDF
    /\ op = NoOp
    /\ err = "ok"
    /\ ret = <<>>
    /\ inserted = <<>>

Add(sample_id, prevalence_values) ==
    LET a == add(df, sample_id, prevalence_values)
    IN  /\ df' = a.df
        /\ err' = a.err
        /\ op' = [name |-> "add", id |-> sample_id, vals |-> prevalence_values]
        /\ ret' = <<>>
        /\ inserted' = IF a.err = "ok" THEN Append(inserted, sample_id) ELSE inserted
        /\ UNCHANGED <<file, r>>

Table(target) == IF target = "df" THEN df ELSE r

Prevalence(target, sample_id) ==
    LET p == prevalence(Table(target), sample_id)
    IN  /\ err' = p.err
        /\ ret' = [none |-> p.none, val |-> p.val]
        /\ op' = [name |-> "prevalence", target |-> target, id |-> sample_id]
        /\ UNCHANGED <<df, file, r, inserted>>

Iterrows(target) ==
    LET it == iterrows(Table(target))
    IN  /\ err' = it.err
        /\ ret' = it.val
        /\ op' = [name |-> "iterrows", target |-> target]
        /\ UNCHANGED <<df, file, r, inserted>>

Dump ==
    LET w == dump(df, file)
    IN  /\ file' = w.file
        /\ err' = w.err
        /\ ret' = <<>>
        /\ op' = [name |-> "dump"]
        /\ UNCHANGED <<df, r, inserted>>

Load ==
    LET l == load(file)
    IN  /\ r' = IF l.err = "ok" THEN l.df ELSE r
        /\ err' = l.err
        /\ ret' = <<>>
        /\ op' = [name |-> "load"]
        /\ UNCHANGED <<df, file, inserted>>

Next ==
    \/ \E i \in Ids, v \in Vectors : Add(i, v)
    \/ \E t \in {"df", "r"}, i \in Ids : Prevalence(t, i)
    \/ \E t \in {"df", "r"} : Iterrows(t)
    \/ Dump
    \/ Load

Spec == Init /\ [][Next]_vars

----------------------------------------------------------------------------
(* Loading files of any content *)

Cells == { <<500, 500>>, <<0, 1000>>, <<500, 502>>, <<-1, 1001>>, <<NaN, 500>> }

Lines2 ==
    { <<IntToText(i)>> \o [j \in 1..2 |-> FloatToText(c[j])] : i \in 0..MaxFileRows, c \in Cells }

SeqsUpTo(S, n) == UNION { [1..m -> S] : m \in 0..n }

Header(name, labels) == <<name>> \o labels

GoodBody2 ==
    << <<<<"0">>, <<"0", ".", "5">>, <<"0", ".", "5">>>>,
       <<<<"1">>, <<"1">>, <<"0">>>> >>

GoodBody3 ==
    << <<<<"1">>, <<"0", ".", "3">>, <<"0", ".", "3">>, <<"0", ".", "4">>>>,
       <<<<"0">>, <<"0", ".", "2", "5", "0">>, <<"0", ".", "2", "5">>, <<"0", ".", "5">>>> >>

GoodBody1 == << <<<<"0">>, <<"1", ".", "0">>>>, <<<<"1">>, <<"1", ".", "0">>>> >>

Files ==
    { [exists |-> TRUE, header |-> Header(IdName, << <<"0">>, <<"1">> >>), lines |-> b] :
        b \in SeqsUpTo(Lines2, MaxFileRows) }
    \cup
    { [exists |-> TRUE, header |-> Header(n, l), lines |-> GoodBody2] :
        n \in {IdName, <<"I", "D">>},
        l \in { << <<"0">>, <<"1">> >>, << <<"0">>, <<"2">> >>, << <<"1">>, <<"0">> >>,
                << <<"0", "0">>, <<"0", "1">> >>, << <<"0">>, <<"x">> >> } }
    \cup
    { [exists |-> TRUE, header |-> Header(IdName, << <<"0">>, <<"1">>, <<"2">> >>),
       lines |-> GoodBody3],
      [exists |-> TRUE, header |-> Header(IdName, << <<"0">> >>), lines |-> GoodBody1],
      NoFile }

InitLoad ==
    /\ df = NoneDF
    /\ file \in Files
    /\ r = NoneDF
    /\ op = NoOp
    /\ err = "ok"
    /\ ret = <<>>
    /\ inserted = <<>>

NextLoad ==
    \/ Load
    \/ \E i \in 0..MaxFileRows : Prevalence("r", i)
    \/ Iterrows("r")

SpecLoad == InitLoad /\ [][NextLoad]_vars

----------------------------------------------------------------------------
(* Scoring two tables built by add *)

EvalIds == 0..MaxEvalId

EvalVectors == { <<500, 500>>, <<0, 1000>>, <<500, 502>>, <<300, 300, 400>>, <<0, 0, 1000>> }

SampleSizes == {1, 2}

RECURSIVE TablesAfter(_)
TablesAfter(n) ==
    IF n = 0 THEN {NoneDF}
    ELSE LET prev == TablesAfter(n - 1)
         IN  prev \cup { add(d, i, v).df : d \in prev, i \in EvalIds, v \in EvalVectors }

EvalTables == TablesAfter(MaxEvalId + 2)

InitEval ==
    /\ df \in EvalTables
    /\ r \in EvalTables
    /\ file = NoFile
    /\ op = NoOp
    /\ err = "ok"
    /\ ret = <<>>
    /\ inserted = <<>>

\* evaluate_submission(true_prevs, predicted_prevs, sample_size, average) with the
\* ground truth in df and the predictions in r
Evaluate(sample_size, average) ==
    LET e == evaluate_submission(df, r, sample_size, average)
    IN  /\ err' = e.err
        /\ ret' = [val |-> e.val, ae |-> e.ae, rae |-> e.rae]
        /\ op' = [name |-> "evaluate", sample_size |-> sample_size, average |-> average]
        /\ UNCHANGED <<df, file, r, inserted>>

NextEval == \E n \in SampleSizes, a \in BOOLEAN : Evaluate(n, a)

SpecEval == InitEval /\ [][NextEval]_vars

----------------------------------------------------------------------------
(* The properties *)

InUnitRange(x) == ~IsNaN(x) /\ 0 <= x /\ x <= One

SumsToOne(v) ==
    /\ \A i \in 1..Len(v) : ~IsNaN(v[i])
    /\ FSum(v) - One <= ERROR_TOL
    /\ One - FSum(v) <= ERROR_TOL

IsAscending(ids) == \A i \in 1..Len(ids) : \A j \in 1..Len(ids) : i < j => ids[i] < ids[j]

PermittedSize(n) == n = DEV_SAMPLES \/ n = TEST_SAMPLES

RowWithId(d, sample_id) == CHOOSE i \in 1..Len(d.rows) : d.rows[i].id = sample_id

LineIds(f) == [i \in 1..Len(f.lines) |-> ParseInt(f.lines[i][1]).v]

\* C1: after any sequence of add calls on an initially empty table, every stored
\* row has exactly k values, every stored value lies in [0,1], every stored row
\* sums to 1 within the tolerance, and no id is stored twice.
C1_StoredRowsValid ==
    ~df.isNone =>
        /\ \A i \in 1..Len(df.rows) :
              /\ Len(df.rows[i].vals) = n_categories(df)
              /\ \A j \in 1..Len(df.rows[i].vals) : InUnitRange(df.rows[i].vals[j])
              /\ SumsToOne(df.rows[i].vals)
        /\ Cardinality(IndexValues(df)) = Len(df.rows)

\* C2: once the class count k is established, an add of a new id whose vector
\* length differs from k fails with a shape mismatch error and inserts nothing
\* (the length error data.py raises itself and the one pandas raises on the
\* assignment both count as a shape mismatch here).
C2_LengthMismatchIsShapeError ==
    (/\ op.name = "add"
     /\ ~df.isNone
     /\ Len(op.vals) # n_categories(df)
     /\ op.id \notin IndexValues(df))
        => err \in {"ShapeMismatch", "MismatchedColumns"}

\* C3: an add with an id that is already present fails with DuplicateId whatever
\* the vector is, and leaves the table, so the row stored for that id, as it was.
C3_DuplicateIdAlwaysRejected ==
    [][(op'.name = "add" /\ ~df.isNone /\ op'.id \in IndexValues(df))
          => (err' = "DuplicateId" /\ df' = df)]_vars

C3_Witness ==
    /\ op.name = "add"
    /\ err = "DuplicateId"
    /\ ~df.isNone
    /\ n_categories(df) = 2
    /\ op.vals = <<1001, 0, 0>>

FileValid(f) ==
    /\ f.exists
    /\ f.header[1] = IdName
    /\ Len(f.header) - 1 >= 2
    /\ \A j \in 2..Len(f.header) :
          ParseInt(f.header[j]).ok /\ ParseInt(f.header[j]).v = j - 2
    /\ PermittedSize(Len(f.lines))
    /\ {LineIds(f)[i] : i \in 1..Len(f.lines)} = 0..(Len(f.lines) - 1)
    /\ \A i \in 1..Len(f.lines) :
          LET v == [j \in 1..(Len(f.lines[i]) - 1) |-> ParseFloat(f.lines[i][j + 1])]
          IN  (\A j \in 1..Len(v) : InUnitRange(v[j])) /\ SumsToOne(v)

\* C4: load returns a table only if the file has the id header and at least two
\* class columns labelled 0..k-1, a permitted row count, the ids 0..n-1, every
\* value in [0,1] and every row summing to 1 within the tolerance; on any other
\* existing file it fails with FormatError and returns no table.
C4_LoadOnlyValidFiles ==
    (op.name = "load" /\ file.exists) =>
        /\ err = "ok" => FileValid(file)
        /\ ~FileValid(file) => (err = "FormatError" /\ r.isNone)

\* C5 as stated: iterate yields the rows in ascending id order and dump writes
\* the data rows in ascending id order, whatever the order of the add calls.
C5_AscendingOrder ==
    /\ (op.name = "iterrows" /\ err = "ok")
          => IsAscending([i \in 1..Len(ret) |-> ret[i][1]])
    /\ (op.name = "dump" /\ err = "ok") => IsAscending(LineIds(file))

\* C5 amended: iterate yields the (id, vector) pairs in the order the rows are
\* stored (the order of the successful add calls; for a loaded table the order of
\* the file's lines), and dump writes the data rows in that same order.
C5_StoredOrder ==
    /\ (op.name = "iterrows" /\ err = "ok" /\ op.target = "df")
          => /\ [i \in 1..Len(ret) |-> ret[i][1]] = inserted
             /\ \A i \in 1..Len(ret) : ret[i][2] = df.rows[RowWithId(df, ret[i][1])].vals
    /\ (op.name = "iterrows" /\ err = "ok" /\ op.target = "r")
          => /\ [i \in 1..Len(ret) |-> ret[i][1]] = IndexOf(r)
             /\ \A i \in 1..Len(ret) : ret[i][2] = r.rows[RowWithId(r, ret[i][1])].vals
    /\ (op.name = "dump" /\ err = "ok") => LineIds(file) = inserted
    /\ (op.name = "load" /\ err = "ok") => IndexOf(r) = LineIds(file)

C5_Witness ==
    /\ op.name = "iterrows"
    /\ err = "ok"
    /\ op.target = "df"
    /\ inserted = <<2, 0, 1>>

\* C6: prevalence(id) with an id that is not stored returns the not-found value
\* None and raises no error; with a stored id it returns that id's row.
C6_MissingIdReturnsNone ==
    (op.name = "prevalence" /\ ~Table(op.target).isNone) =>
        IF op.id \in IndexValues(Table(op.target))
        THEN err = "ok" /\ ~ret.none
             /\ ret.val = Table(op.target).rows[RowWithId(Table(op.target), op.id)].vals
        ELSE err = "ok" /\ ret.none

\* C7: dump validates before it writes: a dump that fails leaves the file as it
\* was, the file changes only when the format check passes, and a dump of an
\* empty table, of a table whose row count is not a permitted size or of a table
\* whose ids are not 0..n-1 fails and writes nothing.
C7_DumpValidatesBeforeWrite ==
    [][op'.name = "dump" =>
          /\ err' # "ok" => file' = file
          /\ file' # file => check_dataframe_format(df).err = "ok"
          /\ (\/ df.isNone
              \/ Len(df.rows) = 0
              \/ ~PermittedSize(Len(df.rows))
              \/ IndexValues(df) # 0..(Len(df.rows) - 1))
                => (err' # "ok" /\ file' = file)]_vars

C7_Witness ==
    /\ op.name = "dump"
    /\ err = "FormatError"
    /\ file.exists
    /\ Len(df.rows) = TEST_SAMPLES
    /\ IndexValues(df) # 0..(Len(df.rows) - 1)

\* C8: for a table built by add whose row count is a permitted size and whose ids
\* are 0..n-1, dump succeeds and a load of the dumped file succeeds and yields a
\* table with the same ids and, for every id, the same prevalence vector.
C8_RoundTrip ==
    /\ (/\ op.name = "dump"
        /\ ~df.isNone
        /\ PermittedSize(Len(df.rows))
        /\ IndexValues(df) = 0..(Len(df.rows) - 1))
          => (err = "ok" /\ file.exists)
    /\ (op.name = "load" /\ ~df.isNone /\ file = to_csv(df))
          => /\ err = "ok"
             /\ ~r.isNone
             /\ Len(r.rows) = Len(df.rows)
             /\ IndexValues(r) = IndexValues(df)
             /\ \A i \in IndexValues(df) :
                   r.rows[RowWithId(r, i)].vals = df.rows[RowWithId(df, i)].vals

C8_Witness ==
    /\ op.name = "load"
    /\ err = "ok"
    /\ ~df.isNone
    /\ file = to_csv(df)
    /\ IndexOf(df) = <<1, 0>>
    /\ df.rows[1].vals = <<500, 501>>

RowOrders(rows) ==
    { [i \in 1..Len(rows) |-> rows[f[i]]] :
        f \in { g \in [1..Len(rows) -> 1..Len(rows)] :
                  \A a \in 1..Len(rows) : \A b \in 1..Len(rows) : g[a] = g[b] => a = b } }

\* C9: evaluate with average=False returns two sequences as long as the ground
\* truth, whose i-th entries are the errors between the i-th ground-truth row and
\* the prediction row with the same id; the result is the same for every order of
\* the prediction table's rows.
C9_PerSampleErrorsJoinById ==
    (op.name = "evaluate" /\ ~op.average /\ err = "ok") =>
        /\ Len(ret.val[1]) = Len(df.rows)
        /\ Len(ret.val[2]) = Len(df.rows)
        /\ \A i \in 1..Len(df.rows) : df.rows[i].id \in IndexValues(r)
        /\ \A i \in 1..Len(df.rows) :
              LET t == df.rows[i].vals
                  p == r.rows[RowWithId(r, df.rows[i].id)].vals
              IN  /\ ret.val[1][i] = absolute_error(t, p).val
                  /\ ret.val[2][i] = relative_absolute_error(t, p, op.sample_size)
        /\ \A q \in RowOrders(r.rows) :
              LET e == evaluate_submission(df, [r EXCEPT !.rows = q],
                                           op.sample_size, FALSE)
              IN  e.err = "ok" /\ e.val = ret.val

C9_Witness ==
    /\ op.name = "evaluate"
    /\ ~op.average
    /\ err = "ok"
    /\ IndexOf(df) = <<0, 1>>
    /\ IndexOf(r) = <<1, 0>>
    /\ r.rows[1].vals # r.rows[2].vals

====
